---- MODULE Spec2Model ----
(***************************************************************************)
(* Model of server/main.py: the Socket.IO event handlers of the voice      *)
(* conversation server and the process-wide `conversations` registry.      *)
(*                                                                         *)
(* The server is created with async_mode='threading': every incoming       *)
(* event is handled on a thread of its own, so handlers of one session id  *)
(* interleave between their accesses to shared state.  A handler is        *)
(* modelled as a record with a program counter; one action is one access   *)
(* to shared state (the registry, a conversation object, the client's      *)
(* event channel) together with the thread-local code around it.           *)
(*                                                                         *)
(* StreamingConversation.process_audio and .terminate are library calls:   *)
(* each has a call step and a return step, and returns normally or raises. *)
(***************************************************************************)
EXTENDS Integers, Sequences, FiniteSets, TLC

VARIABLES conversations, objects, calls, handlers, emitted, client,
          elevenlabs_configured

vars == <<conversations, objects, calls, handlers, emitted, client,
          elevenlabs_configured>>

\* ---------------------------------------------------------------- bounds
\* Number of event handlers (start_conversation, audio_data,
\* end_conversation, disconnect) dispatched in one run.
MaxHandlers == 3

\* Number of handlers running at the same time (dispatched, not returned).
MaxActive == 2

\* ------------------------------------------------------------- constants
\* Session ids (request.sid): opaque strings, one per client connection.
Sids == {"s1", "s2"}

\* conversations.get(sid) when there is no entry.
None == 0

\* Payloads a client can send with audio_data: a list of numeric samples,
\* and a list np.array(..., dtype=np.float32) rejects.
Payloads == {"list", "badlist"}

EventKinds == {"start_conversation", "audio_data", "end_conversation",
               "disconnect"}

\* ---------------------------------------------------------------- helpers
H == DOMAIN handlers

Objs == DOMAIN objects

\* The handler index 0 stands for handle_connect, which is not dispatched
\* on a thread of its own.
ConnectHandler == 0

SetPc(h, pc) == [handlers EXCEPT ![h].pc = pc]

\* emit(event, payload) inside a handler sends to the client request.sid.
\* msg is the payload: the status, or the message of an error event.
Emit(h, s, ev, msg) ==
    [emitted EXCEPT ![s] = Append(@, [ev |-> ev, h |-> h, msg |-> msg])]

\* `except Exception as e`: the handler h caught exception e.
Catch(h, e) == [handlers EXCEPT ![h].pc = "except", ![h].exc = e]

\* data = np.array(data, dtype=np.float32) when data is a list.
ConvertData(d) == IF d = "list" THEN "ndarray" ELSE d

\* np.array raises ValueError on a list that is not numeric.
ConvertRaises(d) == d = "badlist"

\* `if conversation:` -- a StreamingConversation object is truthy.
Truthy(c) == c # None

\* ------------------------------------------------------------------ Init
Init ==
    /\ conversations = [s \in Sids |-> None]
    /\ objects = <<>>
    /\ calls = <<>>
    /\ handlers = <<>>
    /\ emitted = [s \in Sids |-> <<>>]
    /\ client = [s \in Sids |-> "new"]
    /\ elevenlabs_configured \in BOOLEAN

\* ------------------------------------------------------- event dispatch
\* Mutant of handle_connect: the connect handler registers a conversation.
handle_connect_creates(s) ==
    /\ client[s] = "new"
    /\ (s = "s2" => \E h \in H : handlers[h].sid = "s1")
    /\ client' = [client EXCEPT ![s] = "connected"]
    /\ emitted' = [emitted EXCEPT ![s] =
                     Append(@, [ev |-> "connection_established", h |-> 0,
                                msg |-> "connected"])]
    /\ objects' = Append(objects, [sid |-> s, h |-> 0])
    /\ calls' = Append(calls, <<>>)
    /\ conversations' = [conversations EXCEPT ![s] = Len(objects) + 1]
    /\ UNCHANGED <<handlers, elevenlabs_configured>>

\* handle_connect: logs and emits connection_established.  The handler
\* touches nothing but the channel of its own client, so it commutes with
\* every step of another session, and the two session ids are
\* interchangeable: the session with the first event is called "s1", and
\* the connect of "s2" is taken after that event was dispatched.
handle_connect(s) ==
    /\ client[s] = "new"
    /\ (s = "s2" => \E h \in H : handlers[h].sid = "s1")
    /\ client' = [client EXCEPT ![s] = "connected"]
    /\ emitted' = Emit(ConnectHandler, s, "connection_established",
                       "connected")
    /\ UNCHANGED <<conversations, objects, calls, handlers,
                   elevenlabs_configured>>

\* The conversations of session s on which an end_conversation handler
\* that has already returned called terminate().
EndedConversations(s) ==
    {handlers[i].conversation : i \in
        {j \in H : /\ handlers[j].kind = "end_conversation"
                   /\ handlers[j].sid = s
                   /\ handlers[j].pc = "done"
                   /\ handlers[j].conversation # None}}

\* A handler thread at its first statement.  endedPrior records what had
\* already been ended when the event arrived.
NewHandler(s, kind, d) ==
    [kind |-> kind, sid |-> s, pc |-> "begin", conversation |-> None,
     data |-> d, exc |-> "none",
     endedPrior |-> EndedConversations(s)]

\* The server receives an event of a connected client and starts its
\* handler on a new thread (async_mode='threading').
Dispatch(s, kind, d) ==
    /\ client[s] = "connected"
    /\ Len(handlers) < MaxHandlers
    /\ Cardinality({i \in H : handlers[i].pc # "done"}) < MaxActive
    /\ handlers' = Append(handlers, NewHandler(s, kind, d))
    /\ client' = [client EXCEPT
                    ![s] = IF kind = "disconnect" THEN "gone" ELSE @]
    /\ UNCHANGED <<conversations, objects, calls, emitted,
                   elevenlabs_configured>>

\* ------------------------------------------- handle_start_conversation
\* Mutant of StoreConversation: one conversation slot for all clients.
StoreConversation_shared(s, c) == [t \in Sids |-> c]

\* conversations[request.sid] = conversation: a dict store, which
\* overwrites the entry the key already has.
StoreConversation(s, c) == [conversations EXCEPT ![s] = c]

\* Mutant of start_construct: the conversation is built but the registry
\* store is left out.
start_construct_unstored(h, failing) ==
    /\ handlers[h].kind = "start_conversation"
    /\ handlers[h].pc = "begin"
    /\ IF failing # "none" \/ ~elevenlabs_configured
         THEN /\ emitted' = Emit(h, handlers[h].sid, "error",
                                 IF failing = "agent" \/ elevenlabs_configured
                                   THEN "constructor raised"
                                   ELSE "ElevenLabs configuration missing")
              /\ handlers' = [handlers EXCEPT
                    ![h].pc = "done",
                    ![h].exc = IF failing = "agent" \/ elevenlabs_configured
                                 THEN "constructor" ELSE "none"]
              /\ UNCHANGED <<conversations, objects, calls>>
         ELSE /\ objects' = Append(objects,
                                   [sid |-> handlers[h].sid, h |-> h])
              /\ calls' = Append(calls, <<>>)
              /\ handlers' = [handlers EXCEPT
                                ![h].pc = "emit_started",
                                ![h].conversation = Len(objects) + 1]
              /\ UNCHANGED <<conversations, emitted>>
    /\ UNCHANGED <<client, elevenlabs_configured>>

\* Mutant of start_construct: the ElevenLabs settings are not checked.
start_construct_unchecked(h, failing) ==
    /\ handlers[h].kind = "start_conversation"
    /\ handlers[h].pc = "begin"
    /\ IF failing # "none"
         THEN /\ emitted' = Emit(h, handlers[h].sid, "error",
                                 "constructor raised")
              /\ handlers' = [handlers EXCEPT ![h].pc = "done",
                                              ![h].exc = "constructor"]
              /\ UNCHANGED <<conversations, objects, calls>>
         ELSE /\ objects' = Append(objects,
                                   [sid |-> handlers[h].sid, h |-> h])
              /\ calls' = Append(calls, <<>>)
              /\ conversations' = StoreConversation(handlers[h].sid,
                                                    Len(objects) + 1)
              /\ handlers' = [handlers EXCEPT
                                ![h].pc = "emit_started",
                                ![h].conversation = Len(objects) + 1]
              /\ UNCHANGED emitted
    /\ UNCHANGED <<client, elevenlabs_configured>>

\* Everything up to `conversations[request.sid] = conversation`.  The
\* constructor named `failing` raises ("none": all succeed); the
\* ChatGPTAgent is built before the ElevenLabs settings are read, the
\* other three after.  The constructors touch no shared state, so they
\* are one step with the handler's first shared access: the emit of the
\* error (missing settings, or the except clause) or the registry store.
start_construct(h, failing) ==
    /\ handlers[h].kind = "start_conversation"
    /\ handlers[h].pc = "begin"
    /\ IF failing = "agent"
         THEN \* except Exception as e: emit('error', {'message': str(e)})
              /\ emitted' = Emit(h, handlers[h].sid, "error",
                                 "constructor raised")
              /\ handlers' = [handlers EXCEPT ![h].pc = "done",
                                              ![h].exc = "constructor"]
              /\ UNCHANGED <<conversations, objects, calls>>
         ELSE IF ~elevenlabs_configured
         THEN \* emit('error', {'message': 'ElevenLabs configuration
              \* missing'}); return
              /\ emitted' = Emit(h, handlers[h].sid, "error",
                                 "ElevenLabs configuration missing")
              /\ handlers' = SetPc(h, "done")
              /\ UNCHANGED <<conversations, objects, calls>>
         ELSE IF failing # "none"
         THEN /\ emitted' = Emit(h, handlers[h].sid, "error",
                                 "constructor raised")
              /\ handlers' = [handlers EXCEPT ![h].pc = "done",
                                              ![h].exc = "constructor"]
              /\ UNCHANGED <<conversations, objects, calls>>
         ELSE \* conversations[request.sid] = conversation
              /\ objects' = Append(objects,
                                   [sid |-> handlers[h].sid, h |-> h])
              /\ calls' = Append(calls, <<>>)
              /\ conversations' = StoreConversation(handlers[h].sid,
                                                    Len(objects) + 1)
              /\ handlers' = [handlers EXCEPT
                                ![h].pc = "emit_started",
                                ![h].conversation = Len(objects) + 1]
              /\ UNCHANGED emitted
    /\ UNCHANGED <<client, elevenlabs_configured>>

\* emit('conversation_started', {'status': 'success'})
start_emit_started(h) ==
    /\ handlers[h].kind = "start_conversation"
    /\ handlers[h].pc = "emit_started"
    /\ emitted' = Emit(h, handlers[h].sid, "conversation_started", "success")
    /\ handlers' = SetPc(h, "done")
    /\ UNCHANGED <<conversations, objects, calls, client,
                   elevenlabs_configured>>

\* ---------------------------------------------------- handle_audio_data
\* conversation = conversations.get(request.sid); `if conversation:` and
\* the conversion of a list payload, which touch no shared state.
audio_get(h) ==
    /\ handlers[h].kind = "audio_data"
    /\ handlers[h].pc = "begin"
    /\ LET c == conversations[handlers[h].sid]
           d == handlers[h].data
       IN  handlers' = [handlers EXCEPT
             ![h].conversation = c,
             ![h].data = IF Truthy(c) /\ ~ConvertRaises(d)
                           THEN ConvertData(d) ELSE d,
             ![h].exc = IF Truthy(c) /\ ConvertRaises(d)
                          THEN "ValueError" ELSE "none",
             ![h].pc = IF ~Truthy(c) THEN "no_conversation"
                       ELSE IF ConvertRaises(d) THEN "except"
                       ELSE "call"]
    /\ UNCHANGED <<conversations, objects, calls, emitted, client,
                   elevenlabs_configured>>

\* Mutant of audio_no_conversation: the else branch only logs a warning.
audio_no_conversation_silent(h) ==
    /\ handlers[h].kind = "audio_data"
    /\ handlers[h].pc = "no_conversation"
    /\ handlers' = SetPc(h, "done")
    /\ UNCHANGED <<conversations, objects, calls, emitted, client,
                   elevenlabs_configured>>

\* emit('error', {'message': 'No active conversation found'})
audio_no_conversation(h) ==
    /\ handlers[h].kind = "audio_data"
    /\ handlers[h].pc = "no_conversation"
    /\ emitted' = Emit(h, handlers[h].sid, "error",
                       "No active conversation found")
    /\ handlers' = SetPc(h, "done")
    /\ UNCHANGED <<conversations, objects, calls, client,
                   elevenlabs_configured>>

\* response = conversation.process_audio(data): the call is made.
audio_call(h) ==
    /\ handlers[h].kind = "audio_data"
    /\ handlers[h].pc = "call"
    /\ calls' = [calls EXCEPT ![handlers[h].conversation] =
                   Append(@, [op |-> "process_audio", h |-> h])]
    /\ handlers' = SetPc(h, "in_process_audio")
    /\ UNCHANGED <<conversations, objects, emitted, client,
                   elevenlabs_configured>>

\* Mutant of AudioAfterReturn: an exception of process_audio is not caught
\* and ends the handler.
AudioAfterReturn_uncaught(h, outcome) ==
    CASE outcome = "response" -> SetPc(h, "emit_response")
      [] outcome = "empty" -> SetPc(h, "done")
      [] outcome = "raise" -> [handlers EXCEPT ![h].pc = "done",
                                               ![h].exc = "process_audio"]

\* Mutant of AudioAfterReturn: the response is emitted without the
\* `if response:` test.
AudioAfterReturn_untested(h, outcome) ==
    CASE outcome = "response" -> SetPc(h, "emit_response")
      [] outcome = "empty" -> SetPc(h, "emit_response")
      [] outcome = "raise" -> Catch(h, "process_audio")

\* `if response:` emits it, an empty one is only logged; an exception
\* of process_audio goes to the handler's except clause.
AudioAfterReturn(h, outcome) ==
    CASE outcome = "response" -> SetPc(h, "emit_response")
      [] outcome = "empty" -> SetPc(h, "done")
      [] outcome = "raise" -> Catch(h, "process_audio")

\* process_audio returns a response ("response"), returns nothing
\* ("empty") or raises ("raise").  The log of the conversation keeps the
\* order in which it produced its results.
audio_return(h, outcome) ==
    /\ handlers[h].kind = "audio_data"
    /\ handlers[h].pc = "in_process_audio"
    /\ calls' = [calls EXCEPT ![handlers[h].conversation] =
                   Append(@, [op |-> outcome, h |-> h])]
    /\ handlers' = AudioAfterReturn(h, outcome)
    /\ UNCHANGED <<conversations, objects, emitted, client,
                   elevenlabs_configured>>

\* emit('audio_response', response)
audio_emit_response(h) ==
    /\ handlers[h].kind = "audio_data"
    /\ handlers[h].pc = "emit_response"
    /\ emitted' = Emit(h, handlers[h].sid, "audio_response", "response")
    /\ handlers' = SetPc(h, "done")
    /\ UNCHANGED <<conversations, objects, calls, client,
                   elevenlabs_configured>>

\* except Exception as e: emit('error', {'message': str(e)})
audio_except(h) ==
    /\ handlers[h].kind = "audio_data"
    /\ handlers[h].pc = "except"
    /\ emitted' = Emit(h, handlers[h].sid, "error", handlers[h].exc)
    /\ handlers' = SetPc(h, "done")
    /\ UNCHANGED <<conversations, objects, calls, client,
                   elevenlabs_configured>>

\* ---------------------------------------------- handle_end_conversation
\* conversation = conversations.get(request.sid); `if conversation:`;
\* the else branch only logs a warning.
end_get(h) ==
    /\ handlers[h].kind = "end_conversation"
    /\ handlers[h].pc = "begin"
    /\ LET c == conversations[handlers[h].sid]
       IN  handlers' = [handlers EXCEPT
             ![h].conversation = c,
             ![h].pc = IF Truthy(c) THEN "call" ELSE "done"]
    /\ UNCHANGED <<conversations, objects, calls, emitted, client,
                   elevenlabs_configured>>

\* conversation.terminate(): the call is made.
end_call(h) ==
    /\ handlers[h].kind = "end_conversation"
    /\ handlers[h].pc = "call"
    /\ calls' = [calls EXCEPT ![handlers[h].conversation] =
                   Append(@, [op |-> "terminate", h |-> h])]
    /\ handlers' = SetPc(h, "in_terminate")
    /\ UNCHANGED <<conversations, objects, emitted, client,
                   elevenlabs_configured>>

\* Mutant of end_return: an exception of terminate() is swallowed and the
\* handler carries on.
end_return_swallowed(h, outcome) ==
    /\ handlers[h].kind = "end_conversation"
    /\ handlers[h].pc = "in_terminate"
    /\ UNCHANGED calls
    /\ handlers' = [handlers EXCEPT
                      ![h].pc = "del",
                      ![h].exc = IF outcome = "ok" THEN @ ELSE "terminate"]
    /\ UNCHANGED <<conversations, objects, emitted, client,
                   elevenlabs_configured>>

\* terminate() returns ("ok") or raises ("raise").
end_return(h, outcome) ==
    /\ handlers[h].kind = "end_conversation"
    /\ handlers[h].pc = "in_terminate"
    /\ UNCHANGED calls
    /\ handlers' = IF outcome = "ok" THEN SetPc(h, "del")
                   ELSE Catch(h, "terminate")
    /\ UNCHANGED <<conversations, objects, emitted, client,
                   elevenlabs_configured>>

\* del conversations[request.sid]: removes whatever entry the key has
\* now, and raises KeyError when it has none.
end_del(h) ==
    /\ handlers[h].kind = "end_conversation"
    /\ handlers[h].pc = "del"
    /\ IF conversations[handlers[h].sid] # None
         THEN /\ conversations' = [conversations EXCEPT
                                     ![handlers[h].sid] = None]
              /\ handlers' = SetPc(h, "emit_ended")
         ELSE /\ handlers' = Catch(h, "KeyError")
              /\ UNCHANGED conversations
    /\ UNCHANGED <<objects, calls, emitted, client, elevenlabs_configured>>

\* emit('conversation_ended', {'status': 'success'})
end_emit_ended(h) ==
    /\ handlers[h].kind = "end_conversation"
    /\ handlers[h].pc = "emit_ended"
    /\ emitted' = Emit(h, handlers[h].sid, "conversation_ended", "success")
    /\ handlers' = SetPc(h, "done")
    /\ UNCHANGED <<conversations, objects, calls, client,
                   elevenlabs_configured>>

\* except Exception as e: emit('error', {'message': str(e)})
end_except(h) ==
    /\ handlers[h].kind = "end_conversation"
    /\ handlers[h].pc = "except"
    /\ emitted' = Emit(h, handlers[h].sid, "error", handlers[h].exc)
    /\ handlers' = SetPc(h, "done")
    /\ UNCHANGED <<conversations, objects, calls, client,
                   elevenlabs_configured>>

\* ---------------------------------------------------- handle_disconnect
\* if request.sid in conversations:
disconnect_check(h) ==
    /\ handlers[h].kind = "disconnect"
    /\ handlers[h].pc = "begin"
    /\ handlers' = SetPc(h, IF conversations[handlers[h].sid] # None
                              THEN "lookup" ELSE "done")
    /\ UNCHANGED <<conversations, objects, calls, emitted, client,
                   elevenlabs_configured>>

\* conversations[request.sid] read again inside the try: KeyError when
\* the entry was removed since the membership test; the except clause
\* only logs.
disconnect_lookup(h) ==
    /\ handlers[h].kind = "disconnect"
    /\ handlers[h].pc = "lookup"
    /\ LET c == conversations[handlers[h].sid]
       IN  handlers' = [handlers EXCEPT
             ![h].conversation = c,
             ![h].exc = IF c # None THEN "none" ELSE "KeyError",
             ![h].pc = IF c # None THEN "call" ELSE "done"]
    /\ UNCHANGED <<conversations, objects, calls, emitted, client,
                   elevenlabs_configured>>

\* .terminate(): the call is made.
disconnect_call(h) ==
    /\ handlers[h].kind = "disconnect"
    /\ handlers[h].pc = "call"
    /\ calls' = [calls EXCEPT ![handlers[h].conversation] =
                   Append(@, [op |-> "terminate", h |-> h])]
    /\ handlers' = SetPc(h, "in_terminate")
    /\ UNCHANGED <<conversations, objects, emitted, client,
                   elevenlabs_configured>>

\* terminate() returns ("ok") or raises ("raise"); the except clause only
\* logs, so a raise ends the handler with the entry still registered.
disconnect_return(h, outcome) ==
    /\ handlers[h].kind = "disconnect"
    /\ handlers[h].pc = "in_terminate"
    /\ UNCHANGED calls
    /\ handlers' = IF outcome = "ok" THEN SetPc(h, "del")
                   ELSE [handlers EXCEPT ![h].pc = "done",
                                         ![h].exc = "terminate"]
    /\ UNCHANGED <<conversations, objects, emitted, client,
                   elevenlabs_configured>>

\* del conversations[request.sid]; a KeyError is caught and logged.
disconnect_del(h) ==
    /\ handlers[h].kind = "disconnect"
    /\ handlers[h].pc = "del"
    /\ conversations' = [conversations EXCEPT ![handlers[h].sid] = None]
    /\ handlers' = [handlers EXCEPT
                      ![h].pc = "done",
                      ![h].exc = IF conversations[handlers[h].sid] # None
                                   THEN "none" ELSE "KeyError"]
    /\ UNCHANGED <<objects, calls, emitted, client, elevenlabs_configured>>

\* ------------------------------------------------------------------ Next
Outcomes == {"response", "empty", "raise"}

TerminateOutcomes == {"ok", "raise"}

\* The constructor of handle_start_conversation that raises, if any.
Failing == {"none", "agent", "synthesizer", "transcriber", "conversation"}

DispatchEvent ==
    \E s \in Sids, kind \in EventKinds :
        \E d \in (IF kind = "audio_data" THEN Payloads ELSE {"none"}) :
            Dispatch(s, kind, d)

Next ==
    \/ \E s \in Sids : handle_connect(s)
    \/ DispatchEvent
    \/ \E h \in H, failing \in Failing : start_construct(h, failing)
    \/ \E h \in H : start_emit_started(h)
    \/ \E h \in H : audio_get(h)
    \/ \E h \in H : audio_no_conversation(h)
    \/ \E h \in H : audio_call(h)
    \/ \E h \in H, outcome \in Outcomes : audio_return(h, outcome)
    \/ \E h \in H : audio_emit_response(h)
    \/ \E h \in H : audio_except(h)
    \/ \E h \in H : end_get(h)
    \/ \E h \in H : end_call(h)
    \/ \E h \in H, outcome \in TerminateOutcomes : end_return(h, outcome)
    \/ \E h \in H : end_del(h)
    \/ \E h \in H : end_emit_ended(h)
    \/ \E h \in H : end_except(h)
    \/ \E h \in H : disconnect_check(h)
    \/ \E h \in H : disconnect_lookup(h)
    \/ \E h \in H : disconnect_call(h)
    \/ \E h \in H, outcome \in TerminateOutcomes : disconnect_return(h, outcome)
    \/ \E h \in H : disconnect_del(h)

Spec == Init /\ [][Next]_vars

\* ============================================================ properties
\* The events handler h has emitted, in order.
EventsOf(h) == SelectSeq(emitted[handlers[h].sid], LAMBDA e : e.h = h)

\* The positions of the log of conversation o where `op` was called.
Positions(o, op) == {k \in DOMAIN calls[o] : calls[o][k].op = op}

\* How often handler h called `op` on conversation o.
CallsBy(h, o, op) ==
    Cardinality({k \in Positions(o, op) : calls[o][k].h = h})

Count(h, ev) == Len(SelectSeq(EventsOf(h), LAMBDA e : e.ev = ev))

Done(h) == handlers[h].pc = "done"

\* end_conversation and disconnect: the handlers that terminate.
Ends(h) == handlers[h].kind \in {"end_conversation", "disconnect"}

\* Handler h has taken a step.
Steps(h) == handlers'[h] # handlers[h]

\* ---------------------------------------------------------------- C1
\* C1: a start_conversation for a session id that already has a
\* conversation in the registry fails with an error event and leaves the
\* registry entry as it is.
C1_DuplicateStartRejected ==
    [][\A h \in H :
         ( /\ handlers[h].kind = "start_conversation"
           /\ handlers[h].pc = "begin"
           /\ Steps(h)
           /\ conversations[handlers[h].sid] # None )
         => /\ conversations' = conversations
            /\ Count(h, "error")' = 1
            /\ Count(h, "conversation_started")' = 0]_vars

\* ---------------------------------------------------------------- C2
\* C2: once an end_conversation for a conversation has returned, a later
\* end_conversation or disconnect of the session does not call
\* terminate() on that conversation again and emits neither an error nor
\* a conversation_ended for it.
C2_TerminationIdempotent ==
    \A j \in H : Ends(j) =>
        \A o \in handlers[j].endedPrior :
            /\ CallsBy(j, o, "terminate") = 0
            /\ handlers[j].conversation = o =>
                 /\ Count(j, "error") = 0
                 /\ Count(j, "conversation_ended") = 0

\* ---------------------------------------------------------------- C3
\* C3: no conversation has process_audio called on it after terminate()
\* was called on it.
C3_NoAudioAfterTerminate ==
    \A o \in Objs :
        \A a \in Positions(o, "terminate"), b \in Positions(o, "process_audio") :
            b < a

\* ---------------------------------------------------------------- C4
\* C4: once the disconnect handler of a session id has returned, the
\* registry has no conversation for that id.
C4_DisconnectEmptiesRegistry ==
    \A h \in H :
        (handlers[h].kind = "disconnect" /\ Done(h))
        => conversations[handlers[h].sid] = None

\* ---------------------------------------------------------------- C5
\* C5: when a client is gone and all the handlers of its session id have
\* returned, terminate() has been called on every conversation that was
\* created for that id.
C5_NoOrphanConversation ==
    \A s \in Sids :
        ( /\ client[s] = "gone"
          /\ \A h \in H : handlers[h].sid = s => Done(h) )
        => \A o \in Objs :
               objects[o].sid = s => Positions(o, "terminate") # {}

\* ---------------------------------------------------------------- C6
\* C6: when two terminating handlers (end_conversation, disconnect) of a
\* session overlap and terminate() does not raise, then between them
\* terminate() is called at most once on the conversation, at most one
\* conversation_ended and no error is emitted, and the conversation is out
\* of the registry when both have returned.  Handler j overlaps the
\* earlier handler i when i's conversation had not been ended by a
\* returned handler at the time j was dispatched.
C6_ConcurrentTerminationSafe ==
    \A i \in H, j \in H :
        ( /\ i < j /\ Ends(i) /\ Ends(j)
          /\ handlers[i].sid = handlers[j].sid
          /\ handlers[i].conversation # None
          /\ handlers[i].conversation \notin handlers[j].endedPrior
          /\ handlers[i].exc # "terminate"
          /\ handlers[j].exc # "terminate" )
        => LET o == handlers[i].conversation
               same == handlers[j].conversation = o
           IN  /\ CallsBy(i, o, "terminate") + CallsBy(j, o, "terminate") <= 1
               /\ Count(i, "conversation_ended")
                    + (IF same THEN Count(j, "conversation_ended") ELSE 0) <= 1
               /\ Count(i, "error")
                    + (IF same THEN Count(j, "error") ELSE 0) = 0
               /\ (Done(i) /\ Done(j))
                    => conversations[handlers[i].sid] # o

\* ---------------------------------------------------------------- C7
\* C7: the frames of a session reach process_audio of its conversation in
\* the order their audio_data events arrived (the handler index), each
\* frame once.  A payload the conversion rejects is no frame.
C7_FramesInArrivalOrder ==
    \A o \in Objs :
        /\ \A a \in Positions(o, "process_audio"),
              b \in Positions(o, "process_audio") :
               a < b => calls[o][a].h < calls[o][b].h
        /\ \A h \in H :
               ( /\ handlers[h].kind = "audio_data"
                 /\ handlers[h].conversation = o
                 /\ handlers[h].exc # "ValueError"
                 /\ Done(h) )
               => CallsBy(h, o, "process_audio") = 1

\* ---------------------------------------------------------------- C8
\* The handlers of session s that are inside process_audio or terminate().
InCall(s) ==
    {h \in H : /\ handlers[h].sid = s
               /\ handlers[h].pc \in {"in_process_audio", "in_terminate"}}

\* C8: at no time are two handlers of one session inside process_audio or
\* terminate(), and the registry entry of a session is not written while
\* a handler of that session is inside one of them.
C8_SessionOperationsSerialized ==
    /\ [](\A s \in Sids : Cardinality(InCall(s)) <= 1)
    /\ [][\A s \in Sids :
            conversations'[s] # conversations[s] => InCall(s) = {}]_vars

\* ---------------------------------------------------------------- C9
\* An audio_data handler whose registry lookup found no conversation.
FoundNone(h) ==
    /\ handlers[h].kind = "audio_data"
    /\ handlers[h].pc # "begin"
    /\ handlers[h].conversation = None

NoConversationError(h) ==
    [ev |-> "error", h |-> h, msg |-> "No active conversation found"]

\* C9: an audio_data event that finds no conversation for its session id
\* emits exactly one error event, calls process_audio on no conversation
\* and leaves the registry unchanged.
C9_AudioWithoutConversationRejected ==
    /\ [](\A h \in H : FoundNone(h) =>
            /\ handlers[h].pc \in {"no_conversation", "done"}
            /\ \A o \in Objs : CallsBy(h, o, "process_audio") = 0
            /\ Done(h) => EventsOf(h) = <<NoConversationError(h)>>
            /\ ~Done(h) => EventsOf(h) = <<>>)
    /\ [][\A h \in H :
            (Steps(h) /\ FoundNone(h)') => conversations' = conversations]_vars

\* An audio_data handler of a session with no conversation has returned,
\* after a conversation of that session was ended.
C9_Witness ==
    \E h \in H :
        /\ FoundNone(h) /\ Done(h)
        /\ EventsOf(h) = <<NoConversationError(h)>>
        /\ \E o \in Objs : /\ objects[o].sid = handlers[h].sid
                           /\ Positions(o, "terminate") # {}

\* ---------------------------------------------------------------- C10
\* process_audio raised in the audio_data handler h.
Raised(h) ==
    /\ handlers[h].kind = "audio_data"
    /\ handlers[h].conversation # None
    /\ CallsBy(h, handlers[h].conversation, "raise") = 1

\* An audio_data handler that found conversation o and whose payload was
\* converted has got past its call of process_audio.
PastCall(h) ==
    /\ handlers[h].kind = "audio_data"
    /\ handlers[h].conversation # None
    /\ handlers[h].exc # "ValueError"
    /\ handlers[h].pc \notin {"begin", "call"}

\* C10: when process_audio raises, the handler catches it and emits
\* exactly one error event; no step of an audio_data handler changes the
\* registry or calls terminate(); and every audio_data handler that finds
\* a conversation, one in which process_audio raised before included,
\* calls process_audio on it.
C10_TurnFailureKeepsSession ==
    /\ [](\A h \in H : Raised(h) =>
            /\ handlers[h].pc \in {"except", "done"}
            /\ handlers[h].exc = "process_audio"
            /\ Done(h) => EventsOf(h) =
                 <<[ev |-> "error", h |-> h, msg |-> "process_audio"]>>
            /\ ~Done(h) => EventsOf(h) = <<>>)
    /\ [](\A h \in H : PastCall(h) =>
            CallsBy(h, handlers[h].conversation, "process_audio") = 1)
    /\ [][\A h \in H :
            (Steps(h) /\ handlers[h].kind = "audio_data")
            => /\ conversations' = conversations
               /\ \A o \in Objs :
                    Positions(o, "terminate")' = Positions(o, "terminate")]_vars

\* process_audio raised for one frame, the handler has returned with its
\* error event, the conversation is still registered and not terminated,
\* and a later frame was passed to process_audio.
C10_Witness ==
    \E h \in H, j \in H :
        /\ h < j /\ Raised(h) /\ Done(h)
        /\ Count(h, "error") = 1
        /\ handlers[j].kind = "audio_data"
        /\ handlers[j].conversation = handlers[h].conversation
        /\ LET o == handlers[h].conversation
           IN  /\ conversations[handlers[h].sid] = o
               /\ Positions(o, "terminate") = {}
               /\ \E a \in Positions(o, "raise"),
                     b \in Positions(o, "process_audio") :
                      /\ calls[o][a].h = h /\ calls[o][b].h = j /\ a < b

\* ---------------------------------------------------------------- C11
\* The start_conversation handler h has got past its constructors and
\* its bind failed: the ElevenLabs settings are missing, or a constructor
\* raised.
BindFailed(h) ==
    /\ handlers[h].kind = "start_conversation"
    /\ handlers[h].pc # "begin"
    /\ (~elevenlabs_configured \/ handlers[h].exc = "constructor")

\* C11: a start_conversation whose settings are missing or in which a
\* constructor raises emits one error event and no conversation_started,
\* creates no conversation and leaves the registry unchanged.
C11_FailedBindNoSession ==
    /\ [](\A h \in H : BindFailed(h) =>
            /\ Done(h)
            /\ Count(h, "error") = 1
            /\ Len(EventsOf(h)) = 1
            /\ handlers[h].conversation = None
            /\ \A o \in Objs : objects[o].h # h)
    /\ [][\A h \in H :
            (Steps(h) /\ BindFailed(h)') => conversations' = conversations]_vars

\* Both ways of failing have happened: a start_conversation returned with
\* the error of the missing settings, or one returned with the error of a
\* constructor while another session is registered.
C11_Witness ==
    \E h \in H :
        /\ BindFailed(h) /\ Done(h)
        /\ \/ EventsOf(h) = <<[ev |-> "error", h |-> h,
                               msg |-> "ElevenLabs configuration missing"]>>
           \/ /\ EventsOf(h) = <<[ev |-> "error", h |-> h,
                                  msg |-> "constructor raised"]>>
              /\ \E s \in Sids : conversations[s] # None

\* ---------------------------------------------------------------- C12
\* The positions of the audio_response events in the channel of session s.
Responses(s) ==
    {k \in DOMAIN emitted[s] : emitted[s][k].ev = "audio_response"}

\* The position in the log of conversation o at which it produced the
\* response of handler h (0: none).
ProducedAt(o, h) ==
    IF \E k \in Positions(o, "response") : calls[o][k].h = h
      THEN CHOOSE k \in Positions(o, "response") : calls[o][k].h = h
      ELSE 0

\* C12: the audio_response events of a session are emitted in the order
\* in which its conversation produced the responses.
C12_ResponsesInProductionOrder ==
    \A s \in Sids :
        \A a \in Responses(s), b \in Responses(s) :
            LET ha == emitted[s][a].h
                hb == emitted[s][b].h
                o == handlers[ha].conversation
            IN  (a < b /\ handlers[hb].conversation = o)
                => ProducedAt(o, ha) < ProducedAt(o, hb)

\* ---------------------------------------------------------------- C13
\* C13: a step of a handler of session s changes no registry entry but
\* that of s; the conversation a handler holds is one that was created
\* for its own session, and so is every conversation it calls
\* process_audio or terminate() on.
C13_SessionsIsolated ==
    /\ [](\A h \in H :
            handlers[h].conversation # None
            => objects[handlers[h].conversation].sid = handlers[h].sid)
    /\ [](\A o \in Objs : \A k \in DOMAIN calls[o] :
            /\ handlers[calls[o][k].h].sid = objects[o].sid
            /\ handlers[calls[o][k].h].conversation = o)
    /\ [][\A h \in H : Steps(h) =>
            \A t \in Sids \ {handlers[h].sid} :
                conversations'[t] = conversations[t]]_vars

\* Two sessions are registered, each with its own conversation, and a
\* handler has called into the conversation of one of them.
C13_Witness ==
    /\ \A s \in Sids : conversations[s] # None
    /\ conversations["s1"] # conversations["s2"]
    /\ \E o \in Objs : calls[o] # <<>>

\* ---------------------------------------------------------------- C14
\* The connect handler of session s takes its step.
Connects(s) == client[s] = "new" /\ client'[s] = "connected"

\* C14: when the connect handler of a session id has returned, the
\* registry has a session for that id.
C14_ConnectCreatesSession ==
    [][\A s \in Sids : Connects(s) => conversations'[s] # None]_vars

\* C14 as amended: the connect handler leaves the registry as it is, with
\* no entry for its session id; it is the store of a start_conversation
\* handler after which a lookup of the id finds a session, the one that
\* handler created.
C14_SessionCreatedByStart ==
    [][/\ \A s \in Sids : Connects(s) =>
            /\ conversations' = conversations
            /\ conversations'[s] = None
       /\ \A h \in H :
            ( /\ handlers[h].kind = "start_conversation"
              /\ handlers[h].pc = "begin"
              /\ handlers'[h].pc = "emit_started" )
            => /\ conversations'[handlers[h].sid] # None
               /\ conversations'[handlers[h].sid] = handlers'[h].conversation
               /\ objects'[handlers'[h].conversation].h = h]_vars

\* A client is connected and has no session, and a start_conversation
\* handler has just stored the session of its client.
C14_Witness ==
    /\ \E s \in Sids : client[s] = "connected" /\ conversations[s] = None
    /\ \E h \in H :
        /\ handlers[h].kind = "start_conversation"
        /\ handlers[h].pc = "emit_started"
        /\ conversations[handlers[h].sid] = handlers[h].conversation

\* ---------------------------------------------------------------- C16
\* conversation_started has been emitted to session s.
StartedEmitted(s) ==
    \E k \in DOMAIN emitted[s] : emitted[s][k].ev = "conversation_started"

\* No end_conversation or disconnect handler of session s is running or
\* has found a conversation.
NoEnding(s) ==
    \A h \in H :
        (Ends(h) /\ handlers[h].sid = s)
        => (Done(h) /\ handlers[h].conversation = None)

\* No start_conversation handler of session s other than h has got to
\* its registry store.
OnlyStart(h) ==
    \A g \in H \ {h} :
        ( /\ handlers[g].kind = "start_conversation"
          /\ handlers[g].sid = handlers[h].sid )
        => handlers[g].conversation = None

\* C16: at the step that emits conversation_started, the handler has
\* created its conversation and, unless another handler has removed or
\* replaced it, the registry holds it; and with no end_conversation or
\* disconnect in between, an audio_data handler that reads the registry
\* after conversation_started was emitted finds a conversation.
C16_StartedAfterStored ==
    [][/\ \A h \in H :
            (Count(h, "conversation_started") = 0
               /\ Count(h, "conversation_started")' = 1)
            => /\ handlers[h].conversation # None
               /\ objects[handlers[h].conversation].h = h
               /\ (NoEnding(handlers[h].sid) /\ OnlyStart(h))
                    => conversations[handlers[h].sid]
                         = handlers[h].conversation
       /\ \A a \in H :
            ( /\ handlers[a].kind = "audio_data"
              /\ handlers[a].pc = "begin"
              /\ Steps(a)
              /\ StartedEmitted(handlers[a].sid)
              /\ NoEnding(handlers[a].sid) )
            => /\ handlers'[a].conversation # None
               /\ handlers'[a].pc # "no_conversation"]_vars

\* After conversation_started was emitted to a session that nothing has
\* ended, an audio_data handler has read the registry and found the
\* conversation.
C16_Witness ==
    \E a \in H :
        /\ handlers[a].kind = "audio_data"
        /\ handlers[a].pc = "call"
        /\ StartedEmitted(handlers[a].sid)
        /\ NoEnding(handlers[a].sid)
        /\ conversations[handlers[a].sid] = handlers[a].conversation

\* ---------------------------------------------------------------- C17
\* terminate() raised in the end_conversation handler h.
TerminateRaised(h) ==
    /\ handlers[h].kind = "end_conversation"
    /\ handlers[h].exc = "terminate"

\* The end_conversation handler h is about to emit conversation_ended,
\* or has emitted it.
Ended(h) ==
    /\ handlers[h].kind = "end_conversation"
    /\ (handlers[h].pc = "emit_ended" \/ Count(h, "conversation_ended") > 0)

\* C17: conversation_ended is emitted only by a handler whose terminate()
\* returned without raising and once its conversation is out of the
\* registry; a handler whose terminate() raised emits one error and no
\* conversation_ended, and its steps leave the registry as it is.
C17_EndedAfterTerminateAndRemove ==
    /\ [](\A h \in H : Ended(h) =>
            /\ handlers[h].exc = "none"
            /\ CallsBy(h, handlers[h].conversation, "terminate") = 1
            /\ conversations[handlers[h].sid] # handlers[h].conversation
            /\ Count(h, "conversation_ended") <= 1
            /\ Count(h, "error") = 0)
    /\ [](\A h \in H : TerminateRaised(h) =>
            /\ handlers[h].pc \in {"except", "done"}
            /\ Count(h, "conversation_ended") = 0
            /\ Done(h) => EventsOf(h) =
                 <<[ev |-> "error", h |-> h, msg |-> "terminate"]>>
            /\ ~Done(h) => EventsOf(h) = <<>>)
    /\ [][\A h \in H :
            (Steps(h) /\ TerminateRaised(h)')
            => conversations' = conversations]_vars

\* terminate() raised in one end_conversation, which returned with its
\* error and the conversation still registered; a second end_conversation
\* then ended the conversation and emitted conversation_ended.
C17_Witness ==
    \E h \in H, j \in H :
        /\ TerminateRaised(h) /\ Done(h) /\ Count(h, "error") = 1
        /\ handlers[h].conversation \in handlers[j].endedPrior
        /\ Ended(j) /\ Done(j)
        /\ handlers[j].conversation = handlers[h].conversation
        /\ conversations[handlers[j].sid] = None

\* ---------------------------------------------------------------- C18
\* The one event an audio_data handler that has returned has emitted, as
\* its lookup, its conversion and the result of process_audio decide.
ExpectedEvents(h) ==
    LET o == handlers[h].conversation
    IN  IF o = None THEN <<NoConversationError(h)>>
        ELSE IF handlers[h].exc = "ValueError"
          THEN <<[ev |-> "error", h |-> h, msg |-> "ValueError"]>>
        ELSE IF CallsBy(h, o, "response") = 1
          THEN <<[ev |-> "audio_response", h |-> h, msg |-> "response"]>>
        ELSE IF CallsBy(h, o, "raise") = 1
          THEN <<[ev |-> "error", h |-> h, msg |-> "process_audio"]>>
        ELSE <<>>

\* C18: an audio_data handler emits at most one event: one audio_response
\* for a response, one error for a missing conversation or an exception,
\* nothing for an empty result; and none of its steps changes the registry.
C18_OneEventPerAudio ==
    /\ [](\A h \in H : handlers[h].kind = "audio_data" =>
            /\ Len(EventsOf(h)) <= 1
            /\ Done(h) => EventsOf(h) = ExpectedEvents(h)
            /\ ~(Count(h, "audio_response") > 0 /\ Count(h, "error") > 0))
    /\ [][\A h \in H :
            (Steps(h) /\ handlers[h].kind = "audio_data")
            => conversations' = conversations]_vars

\* Two audio_data handlers of one conversation have returned: one whose
\* response was emitted, one whose empty result emitted nothing.
C18_Witness ==
    \E h \in H, j \in H :
        /\ handlers[h].kind = "audio_data" /\ Done(h)
        /\ handlers[j].kind = "audio_data" /\ Done(j)
        /\ handlers[h].conversation # None
        /\ handlers[j].conversation = handlers[h].conversation
        /\ CallsBy(h, handlers[h].conversation, "response") = 1
        /\ Count(h, "audio_response") = 1
        /\ CallsBy(j, handlers[j].conversation, "empty") = 1
        /\ EventsOf(j) = <<>>

====
